---- MODULE Spec2Model ----
(***************************************************************************)
(* A model of the mailing-list cache of ietfdata (src/ietfdata/            *)
(* mailarchive.py): the MongoDB collections db.messages and db.aa_cache,   *)
(* the GridFS blob store, the IMAP mailbox of each list, the MailingList   *)
(* handles of each process, and MailingList.update() cut at every store    *)
(* operation.                                                              *)
(***************************************************************************)
EXTENDS Integers, Sequences, FiniteSets, TLC

\* ------------------------------------------------------------------ bounds
\* Largest sequence id (IMAP uid) a mailbox hands out.
MaxId == 3
\* update() runs started plus changes of the remote mailboxes, when update()
\* runs one at a time.
MaxEvents == 5
\* The same, when processes run update() concurrently.
MaxRaceEvents == 4
\* The staged batch is flushed once it holds more than this many upserts
\* (mailarchive.py:233 uses 1000; scaled down here).
FlushThreshold == 1
\* The characters that follow the prefix of a URL handed to _parse_archive_url.
MaxTail == 3
\* The header lines of a message besides Date.
MaxHeaders == 2
\* The requests the model follows in one URL lookup.
MaxTrips == 2
\* The keepalive period of update(), ten seconds, in units of the wall clock
\* of the model, and the time the clock runs to.
KeepaliveSecs == 2
MaxTime == 4
\* The pages a query of the datatracker has, and the objects of a page.
MaxPages == 3
MaxPageLen == 2

Procs == {"p1", "p2"}
\* Strings are sequences of one-character strings, so that slicing is real.
Lists == {<<"a">>, <<"b">>}
Ids   == 1..MaxId
\* Byte sizes of messages: two, so that sizes can differ.
Sizes == {1, 2}

\* ------------------------------------------------------- python strings
Min2(a, b) == IF a < b THEN a ELSE b
Max2(a, b) == IF a > b THEN a ELSE b

\* str.find: the lowest 0-based index of sub in s, or -1.
Find(s, sub) ==
    LET hits == {i \in 0..(Len(s) - Len(sub)) : SubSeq(s, i + 1, i + Len(sub)) = sub}
    IN  IF hits = {} THEN -1 ELSE CHOOSE i \in hits : \A j \in hits : i <= j

\* A slice bound as python normalises it: negative counts from the end.
Norm(s, i) == IF i < 0 THEN Max2(Len(s) + i, 0) ELSE Min2(i, Len(s))
\* s[lo:]
SliceFrom(s, lo) == SubSeq(s, Norm(s, lo) + 1, Len(s))
\* s[:hi]
SliceTo(s, hi) == SubSeq(s, 1, Norm(s, hi))

RECURSIVE LStrip(_)
LStrip(s) == IF s # <<>> /\ Head(s) = " " THEN LStrip(Tail(s)) ELSE s
RECURSIVE RStrip(_)
RStrip(s) == IF s # <<>> /\ s[Len(s)] = " " THEN RStrip(SubSeq(s, 1, Len(s) - 1)) ELSE s
\* str.strip
Strip(s) == RStrip(LStrip(s))

\* "://mailarchive.ietf.org/arch/msg", 32 characters
Marker ==
    << ":", "/", "/", "m", "a", "i", "l", "a", "r", "c", "h", "i", "v", "e", ".",
       "i", "e", "t", "f", ".", "o", "r", "g", "/", "a", "r", "c", "h", "/", "m", "s", "g" >>
\* "//mailarchive.ietf.org/arch/msg", the test of message_from_archive_url
CanonicalMark == Tail(Marker)
\* "//www.ietf.org/mail-archive/web/"
LegacyMark ==
    << "/", "/", "w", "w", "w", ".", "i", "e", "t", "f", ".", "o", "r", "g", "/",
       "m", "a", "i", "l", "-", "a", "r", "c", "h", "i", "v", "e", "/", "w", "e", "b", "/" >>
Https == << "h", "t", "t", "p", "s" >>

\* The offset added to the marker's position (the marker and one "/").
MarkerSkip == 33

\* (mutant) the marker is taken to start after a five-character scheme.
parse_archive_url_fixed_prefix(archive_url) ==
    LET aa_start == Len(Https)
        aa_uri   == Strip(SliceFrom(archive_url, aa_start + MarkerSkip))
        slash    == Find(aa_uri, <<"/">>)
    IN  << SliceTo(aa_uri, slash), SliceFrom(aa_uri, slash + 1) >>

\* (mutant) the offset is the length of the marker, without the "/" after it.
parse_archive_url_short_skip(archive_url) ==
    LET aa_start == Find(archive_url, Marker)
        aa_uri   == Strip(SliceFrom(archive_url, aa_start + Len(Marker)))
        slash    == Find(aa_uri, <<"/">>)
    IN  << SliceTo(aa_uri, slash), SliceFrom(aa_uri, slash + 1) >>

\* _parse_archive_url: (mailing_list, message_hash)
parse_archive_url(archive_url) ==
    LET aa_start == Find(archive_url, Marker)
        aa_uri   == Strip(SliceFrom(archive_url, aa_start + MarkerSkip))
        slash    == Find(aa_uri, <<"/">>)
    IN  << SliceTo(aa_uri, slash), SliceFrom(aa_uri, slash + 1) >>

\* The canonical permalink of (list, hash).
Permalink(l, h) == Https \o Marker \o <<"/">> \o l \o <<"/">> \o h

\* ------------------------------------------------------------ messages
\* The Archived-At header of a message: absent, or one of these values.
AANames == {"none", "ax", "ay", "bx"}
\* Whether the Date header of a message parses to a timestamp.
Dates == BOOLEAN
ArchivedAt(aa) ==
    CASE aa = "ax" -> Permalink(<<"a">>, <<"x">>)
      [] aa = "ay" -> Permalink(<<"a">>, <<"y">>)
      [] aa = "bx" -> Permalink(<<"b">>, <<"x">>)
      [] OTHER     -> <<>>

\* What a mailbox holds under an id: the raw message. size is len(RFC822),
\* which is also what the server reports as RFC822.SIZE (size 0 marks an id
\* the mailbox does not hold); aa is its Archived-At
\* header, ts whether its Date header parses.
Contents == [size : Sizes, aa : AANames, ts : Dates]
\* The messages the mailboxes of the synchronisation runs hold: with and
\* without a permalink, of either size. (update() only stores the timestamp.)
SyncContents == [size : Sizes, aa : {"none", "ax"}, ts : {TRUE}]
Absent   == [size |-> 0, aa |-> "none", ts |-> FALSE]

\* ------------------------------------------------------------- the state
VARIABLES
    remote,         \* the IMAP server: remote[l][i] is the message of folder l under uid i
    messages,       \* db.messages: a set of documents (rows)
    fs,             \* GridFS: the ObjectIds of the stored blobs
    nextOid,        \* the next ObjectId fs.put hands out (never reused)
    aa_cache,       \* db.aa_cache: per list, the persisted archive_urls document
    mailing_lists,  \* MailArchive._mailing_lists of each process: name -> MailingList
    pc,             \* where each process stands in update()
    run,            \* the locals of each process's update() call
    hist,           \* history per list: what the last run on it did
    clock,          \* update() runs started so far (also the time of day)
    remoteOps,      \* remote changes so far
    imap,           \* the IMAPClient each process works with: its state and selected folder
    dl,             \* the locals of each process's download_all_messages() call
    call,           \* a call of a helper or lookup: its argument, progress and result
    now,            \* the wall clock, in units of which KeepaliveSecs make the keepalive period
    mailing_list_names, \* each process's mailing_list_names() generator and its connection
    pager           \* a paginated generator of DataTracker: its cursor, page and output

vars == << remote, messages, fs, nextOid, aa_cache, mailing_lists, pc, run, hist,
           clock, remoteOps,
          imap, dl, call, now, mailing_list_names, pager >>

\* An archive index (Dict[str, int]) is a set of <<hash, uid>> pairs, one per hash.
Put(idx, h, i) == {e \in idx : e[1] # h} \cup {<<h, i>>}
HasKey(idx, h) == \E e \in idx : e[1] = h
Get(idx, h)    == (CHOOSE e \in idx : e[1] = h)[2]

NoHandle == [exists |-> FALSE, num_messages |-> 0, archive_urls |-> {}, last_updated |-> 0]
NoDoc    == [exists |-> FALSE, archive_urls |-> {}]

NoCrash == [valid |-> FALSE, unflushed |-> {}, flushed |-> {}]
NoRun ==
    [ list |-> <<>>, cached |-> {}, todo |-> <<>>, msg_fetch |-> <<>>, k |-> 1,
      last_keepalive |-> 0,
      cache_replaces |-> <<>>, new_msgs |-> <<>>,
      \* history of the call, for the properties:
      cause |-> "none", flushed |-> {}, fresh |-> FALSE, recov |-> NoCrash,
      pre |-> [messages |-> {}, fs |-> {}, aa_cache |-> NoDoc, handle |-> NoHandle] ]

\* No IMAPClient: none made yet, or the one update() made is gone with its
\* locals. state is "none", "auth" (logged in, no folder selected),
\* "selected" or "out" (logged out); shared marks the client that
\* download_all_messages hands to every update().
NoConn == [state |-> "none", folder |-> <<>>, shared |-> FALSE, noops |-> 0]
\* download_all_messages is not running.
NoDownload == [pc |-> "off", ml_names |-> <<>>, index |-> 0, updated |-> <<>>]
\* No mailing_list_names() generator: pc is "none", "yielded" (suspended at
\* the yield of the name at index), "exhausted" or "dropped"; state is the
\* state of the connection it made.
NoNames == [pc |-> "none", state |-> "none", folders |-> <<>>, index |-> 0]
\* A URL of the datatracker: whether it starts with base_url, and the page
\* its path asks for; path 0 is None.
NoneUrl == [base |-> FALSE, path |-> 0]
\* No paginated generator is being iterated. pc is "ready", "request" (at the
\* test of the while loop with a URL), "yield" (inside the for loop),
\* "exhausted" or "raised".
NoPager == [fn |-> "none", pc |-> "ready", pages |-> <<>>, url |-> NoneUrl, objs |-> <<>>,
            requested |-> <<>>, yielded |-> <<>>, err |-> "none"]
\* No call of a helper is under way.
NoCall == [fn |-> "none", pc |-> "ready", archive_url |-> <<>>, rfc822 |-> <<>>,
           trips |-> 0, ret |-> <<>>]

RowsOf(l) == {r \in messages : r.list = l}
RemoteIds(l) == {i \in Ids : remote[l][i].size # 0}

\* The ascending sequence of the elements of a set of integers.
RECURSIVE SortedSeq(_)
SortedSeq(S) ==
    IF S = {} THEN <<>>
    ELSE LET m == CHOOSE x \in S : \A y \in S : x <= y
         IN  <<m>> \o SortedSeq(S \ {m})

SeqSet(s) == {s[j] : j \in 1..Len(s)}

\* ------------------------------------------------------------ the stores
\* (mutant) db.messages without its unique index.
DuplicateKey_no_index(rows, doc) == FALSE

\* The unique index on (list, imap_uid) of db.messages: would doc be a second
\* document under its key?
DuplicateKey(rows, doc) ==
    \E r \in rows : r.list = doc.list /\ r.imap_uid = doc.imap_uid

\* A document matches a filter when it has every field of the filter, with the
\* filter's value.
Matches(r, filter) ==
    \A f \in DOMAIN filter : f \in DOMAIN r /\ r[f] = filter[f]

\* ReplaceOne(filter, doc, upsert=True) on db.messages: replace one matching
\* document, or insert doc when none matches; the unique index refuses a
\* second document for a key (DuplicateKeyError).
ReplaceOne(rows, op) ==
    LET hit  == {r \in rows : Matches(r, op.filter)}
        rest == IF hit = {} THEN rows ELSE rows \ {CHOOSE r \in hit : TRUE}
    IN  IF DuplicateKey(rest, op.doc)
        THEN [ok |-> FALSE, rows |-> rows]
        ELSE [ok |-> TRUE, rows |-> rest \cup {op.doc}]

\* (mutant) a batch written without its first operation.
bulk_write_drops_first(rows, ops) ==
    IF ops = <<>> THEN [ok |-> TRUE, rows |-> rows]
    ELSE [ok |-> TRUE, rows |-> rows \cup {ops[j].doc : j \in 2..Len(ops)}]

\* db.messages.bulk_write(ops), ordered: the operations are applied in order
\* and the first error stops the batch (BulkWriteError), the earlier ones kept.
RECURSIVE bulk_write(_, _)
bulk_write(rows, ops) ==
    IF ops = <<>> THEN [ok |-> TRUE, rows |-> rows]
    ELSE LET one == ReplaceOne(rows, Head(ops))
         IN  IF one.ok THEN bulk_write(one.rows, Tail(ops)) ELSE one

\* (mutant) a delete whose filter names the list only.
delete_one_list_only(rows, l, i) == {r \in rows : r.list # l}

\* db.messages.delete_one({"list": l, "imap_uid": i})
delete_one(rows, l, i) ==
    LET hit == {r \in rows : r.list = l /\ r.imap_uid = i}
    IN  IF hit = {} THEN rows ELSE rows \ {CHOOSE r \in hit : TRUE}

\* (mutant) the stored size counts one byte more than was fetched.
NewRow_size_off(l, i, gid, c) ==
    [ list |-> l, imap_uid |-> i, gridfs_id |-> gid, size |-> c.size + 1,
      aa |-> c.aa, ts |-> c.ts ]

\* The document update() stages for message i of list l, fetched as c and
\* stored in GridFS under gid.
NewRow(l, i, gid, c) ==
    [ list |-> l, imap_uid |-> i, gridfs_id |-> gid, size |-> c.size,
      aa |-> c.aa, ts |-> c.ts ]

\* (mutant) the staged upsert filters on the key of the unique index.
StagedReplace_by_uid(l, i, gid, c) ==
    [ filter |-> [list |-> l, imap_uid |-> i], doc |-> NewRow(l, i, gid, c) ]

\* The staged upsert of update().
StagedReplace(l, i, gid, c) ==
    [ filter |-> [list |-> l, id |-> i], doc |-> NewRow(l, i, gid, c) ]

\* --------------------------------------------------------- classification
\* cached_messages[msg_id] of the dict built from the rows read at the start.
InCache(cached, i)   == \E r \in cached : r.imap_uid = i
CachedRow(cached, i) == CHOOSE r \in cached : r.imap_uid = i

\* (mutant) only a message that grew is taken for changed.
SizeMismatch_grown(cached, i, reported) == CachedRow(cached, i).size < reported

\* cached_messages[msg_id]["size"] != msg[b"RFC822.SIZE"]
SizeMismatch(cached, i, reported) == CachedRow(cached, i).size # reported

\* The first loop of update() up to the next id whose cached size differs (the
\* iterations before it touch no store): ids not cached are appended to
\* msg_fetch, ids cached with the reported size are skipped.
RECURSIVE ClassifyLocal(_, _, _, _)
ClassifyLocal(todo, cached, l, msg_fetch) ==
    IF todo = <<>> THEN [todo |-> <<>>, msg_fetch |-> msg_fetch]
    ELSE LET i == Head(todo)
         IN  IF ~InCache(cached, i)
             THEN ClassifyLocal(Tail(todo), cached, l, Append(msg_fetch, i))
             ELSE IF SizeMismatch(cached, i, remote[l][i].size)
                  THEN [todo |-> todo, msg_fetch |-> msg_fetch]
                  ELSE ClassifyLocal(Tail(todo), cached, l, msg_fetch)

\* Where update() goes when the first loop is over: `if len(msg_fetch) > 0`,
\* else straight to the end (nothing is staged).
AfterClassify(msg_fetch) == IF Len(msg_fetch) > 0 THEN "fetch" ELSE "close"
ClassifyPc(c) == IF c.todo # <<>> THEN "classify" ELSE AfterClassify(c.msg_fetch)

Active == {"classify", "del_row", "fetch", "flush", "index", "final", "close"}
Quiet  == \A q \in Procs : pc[q] = "idle"
\* Under serial use, a process acts only while no other process is inside update().
Alone(p, serial) == serial => \A q \in Procs \ {p} : pc[q] = "idle"
\* The model stops starting runs and changing mailboxes at its bound.
InBudget(serial) == clock + remoteOps < (IF serial THEN MaxEvents ELSE MaxRaceEvents)

\* ----------------------------------------------------------------- Init
Init ==
    /\ remote = [l \in Lists |-> [i \in Ids |-> Absent]]
    /\ messages = {}
    /\ fs = {}
    /\ nextOid = 1
    /\ aa_cache = [l \in Lists |-> NoDoc]
    /\ mailing_lists = [p \in Procs |-> [l \in Lists |-> NoHandle]]
    /\ pc = [p \in Procs |-> "idle"]
    /\ run = [p \in Procs |-> NoRun]
    /\ hist = [l \in Lists |-> [synced |-> FALSE, crash |-> NoCrash]]
    /\ clock = 0
    /\ remoteOps = 0
    /\ imap = [p \in Procs |-> NoConn]
    /\ dl = [p \in Procs |-> NoDownload]
    /\ call = NoCall
    /\ now = 0
    /\ mailing_list_names = [p \in Procs |-> NoNames]
    /\ pager = NoPager

\* ------------------------------------------------------ the remote mailbox
\* The server changes a folder only while no update() is running: a run sees
\* one remote state.
RemoteChange(l, i, c, serial) ==
    /\ Quiet
    /\ InBudget(serial)
    /\ remote' = [remote EXCEPT ![l][i] = c]
    /\ remoteOps' = remoteOps + 1
    /\ hist' = [hist EXCEPT ![l] = [synced |-> FALSE, crash |-> NoCrash]]
    /\ UNCHANGED << messages, fs, nextOid, aa_cache, mailing_lists, pc, run, clock >>
    /\ UNCHANGED << imap, dl, call >>
    /\ UNCHANGED << now, mailing_list_names, pager >>

\* A new message arrives under the next uid.
Deliver(l, CS, serial) ==
    \E c \in CS :
        LET i == IF RemoteIds(l) = {} THEN 1
                 ELSE 1 + CHOOSE x \in RemoteIds(l) : \A y \in RemoteIds(l) : y <= x
        IN  i \in Ids /\ RemoteChange(l, i, c, serial)

\* The message under a uid is replaced by another one.
Rewrite(l, CS, serial) ==
    \E i \in RemoteIds(l), c \in CS :
        c # remote[l][i] /\ RemoteChange(l, i, c, serial)

\* A message is removed from the folder.
Expunge(l, serial) ==
    \E i \in RemoteIds(l) : RemoteChange(l, i, Absent, serial)

\* ------------------------------------------------------------- handles
\* The timestamp update() stores for a message: every Date that parses is
\* the instant 2 of the times 1..3; 0 is None.
Times == 1..3
Timestamp(r) == IF r.ts THEN 2 ELSE 0

\* MailingList.messages(since, until): the find() with $gt/$lt matches the
\* rows of the list whose timestamp lies strictly inside the range (a None
\* timestamp matches no range). Building the MailingListMessage of the first
\* matched row evaluates "headers".get and raises AttributeError: the
\* generator yields nothing when no row matches and raises otherwise.
ml_messages(l, since, until) ==
    LET hit == {r \in RowsOf(l) : r.ts /\ since < Timestamp(r) /\ Timestamp(r) < until}
    IN  IF hit = {} THEN [ok |-> TRUE, uids |-> {}, err |-> "none"]
        ELSE [ok |-> FALSE, uids |-> {}, err |-> "AttributeError"]

\* MailingList.messages() with its default range: the rows of the list that
\* have a timestamp match the query; building the first MailingListMessage
\* raises ("headers".get), so the generator yields nothing or raises.
messages_raises(l) == \E r \in RowsOf(l) : r.ts

\* MailingList.__init__: the count of the rows, and the persisted index or,
\* without one, the index rebuilt from messages(), which raises at the first
\* message it would yield. _last_updated is not set (0).
init_raises(l) == ~aa_cache[l].exists /\ messages_raises(l)
MailingList_init(l) ==
    [ exists |-> TRUE,
      num_messages |-> Cardinality(RowsOf(l)),
      archive_urls |-> IF aa_cache[l].exists THEN aa_cache[l].archive_urls ELSE {},
      last_updated |-> 0 ]

\* (mutant) the name is not looked up in _mailing_lists first: every call
\* constructs a handle and binds the name to it.
mailing_list_rebinds(p, l, serial) ==
    /\ pc[p] = "idle"
    /\ Alone(p, serial)
    /\ ~init_raises(l)
    /\ mailing_lists' = [mailing_lists EXCEPT ![p][l] = MailingList_init(l)]
    /\ aa_cache' = IF aa_cache[l].exists THEN aa_cache
                   ELSE [aa_cache EXCEPT ![l] = [exists |-> TRUE, archive_urls |-> {}]]
    /\ UNCHANGED << remote, messages, fs, nextOid, pc, run, hist, clock, remoteOps >>
    /\ UNCHANGED << imap, dl, call >>
    /\ UNCHANGED << now, mailing_list_names, pager >>

\* (mutant) the constructor takes the rebuild branch also when a persisted
\* index exists, and persists what the scan gave.
mailing_list_rebuild_overwrites(p, l, serial) ==
    /\ pc[p] = "idle"
    /\ Alone(p, serial)
    /\ ~mailing_lists[p][l].exists
    /\ ~messages_raises(l)
    /\ mailing_lists' = [mailing_lists EXCEPT ![p][l] =
            [MailingList_init(l) EXCEPT !.archive_urls = {}]]
    /\ aa_cache' = [aa_cache EXCEPT ![l] = [exists |-> TRUE, archive_urls |-> {}]]
    /\ UNCHANGED << remote, messages, fs, nextOid, pc, run, hist, clock, remoteOps >>
    /\ UNCHANGED << imap, dl, call >>
    /\ UNCHANGED << now, mailing_list_names, pager >>

\* MailArchive.mailing_list(name) for a name not yet in _mailing_lists: the
\* handle is constructed and kept; a rebuilt index is persisted. A
\* constructor that raises leaves everything as it was.
mailing_list(p, l, serial) ==
    /\ pc[p] = "idle"
    /\ Alone(p, serial)
    /\ ~mailing_lists[p][l].exists
    /\ ~init_raises(l)
    /\ mailing_lists' = [mailing_lists EXCEPT ![p][l] = MailingList_init(l)]
    /\ aa_cache' = IF aa_cache[l].exists THEN aa_cache
                   ELSE [aa_cache EXCEPT ![l] = [exists |-> TRUE, archive_urls |-> {}]]
    /\ UNCHANGED << remote, messages, fs, nextOid, pc, run, hist, clock, remoteOps >>
    /\ UNCHANGED << imap, dl, call >>
    /\ UNCHANGED << now, mailing_list_names, pager >>

\* The process ends and a new one constructs its MailArchive: no handles.
MailArchive_init(p, serial) ==
    /\ pc[p] = "idle"
    /\ Alone(p, serial)
    /\ \E l \in Lists : mailing_lists[p][l].exists
    /\ mailing_lists' = [mailing_lists EXCEPT ![p] = [l \in Lists |-> NoHandle]]
    /\ UNCHANGED << remote, messages, fs, nextOid, aa_cache, pc, run, hist, clock, remoteOps >>
    /\ UNCHANGED << imap, dl, call >>
    /\ UNCHANGED << now, mailing_list_names, pager >>

\* -------------------------------------------------------------- update()
\* What the history of list l records when the run of p ends in an exception.
Crashed(p) ==
    [ synced |-> FALSE,
      crash  |-> [ valid     |-> run[p].flushed # {},
                   unflushed |-> SeqSet(run[p].msg_fetch) \ run[p].flushed,
                   flushed   |-> run[p].flushed ] ]

Snapshot(p, l) ==
    [ messages |-> messages, fs |-> fs, aa_cache |-> aa_cache[l],
      handle |-> mailing_lists[p][l] ]

\* (mutant) _last_updated is stamped before the connection is made.
update_connect_fail_stamped(p, l, serial) ==
    /\ pc[p] = "idle"
    /\ Alone(p, serial)
    /\ mailing_lists[p][l].exists
    /\ InBudget(serial)
    /\ clock' = clock + 1
    /\ pc' = [pc EXCEPT ![p] = "failed"]
    /\ run' = [run EXCEPT ![p] =
            [NoRun EXCEPT !.list = l, !.last_keepalive = now, !.cause = "connection",
                          !.pre = Snapshot(p, l)]]
    /\ mailing_lists' = [mailing_lists EXCEPT ![p][l].last_updated = clock + 1]
    /\ UNCHANGED << remote, messages, fs, nextOid, aa_cache, hist, remoteOps >>
    /\ UNCHANGED << imap, dl, call >>
    /\ UNCHANGED << now, mailing_list_names, pager >>

\* update() cannot connect, log in or select the folder: the exception leaves
\* update() before it read or wrote anything.
update_connect_fail(p, l, serial) ==
    /\ pc[p] = "idle"
    /\ Alone(p, serial)
    /\ mailing_lists[p][l].exists
    /\ InBudget(serial)
    /\ clock' = clock + 1
    /\ pc' = [pc EXCEPT ![p] = "failed"]
    /\ run' = [run EXCEPT ![p] =
            [NoRun EXCEPT !.list = l, !.last_keepalive = now, !.cause = "connection",
                          !.pre = Snapshot(p, l)]]
    /\ UNCHANGED << remote, messages, fs, nextOid, aa_cache, mailing_lists, hist, remoteOps >>
    /\ UNCHANGED << imap, dl, call >>
    /\ UNCHANGED << now, mailing_list_names, pager >>

\* update() up to the first store write: select the folder, search, read the
\* cached rows, fetch the sizes, and classify up to the first size mismatch.
update_begin(p, l, serial) ==
    /\ pc[p] = "idle"
    /\ Alone(p, serial)
    /\ mailing_lists[p][l].exists
    /\ InBudget(serial)
    /\ clock' = clock + 1
    /\ LET cached == RowsOf(l)
           c == ClassifyLocal(SortedSeq(RemoteIds(l)), cached, l, <<>>)
       IN  /\ run' = [run EXCEPT ![p] =
                   [NoRun EXCEPT !.list = l, !.last_keepalive = now,
                                 !.cached = cached, !.todo = c.todo,
                                 !.msg_fetch = c.msg_fetch,
                                 !.fresh = hist[l].synced, !.recov = hist[l].crash,
                                 !.pre = Snapshot(p, l)]]
           /\ pc' = [pc EXCEPT ![p] = ClassifyPc(c)]
    /\ hist' = [hist EXCEPT ![l] = [synced |-> FALSE, crash |-> NoCrash]]
    /\ UNCHANGED << remote, messages, fs, nextOid, aa_cache, mailing_lists, remoteOps >>
    /\ imap' = [imap EXCEPT ![p] = [@ EXCEPT !.state = "selected", !.folder = l]]
    /\ UNCHANGED << dl, call >>
    /\ UNCHANGED << now, mailing_list_names, pager >>

\* (mutant) the stale blob is left in GridFS.
size_mismatch_keeps_blob(p, serial) ==
    /\ pc[p] = "classify"
    /\ Alone(p, serial)
    /\ pc' = [pc EXCEPT ![p] = "del_row"]
    /\ UNCHANGED << remote, messages, fs, nextOid, aa_cache, mailing_lists, run, hist,
                    clock, remoteOps >>
    /\ UNCHANGED << imap, dl, call >>
    /\ UNCHANGED << now, mailing_list_names, pager >>

\* Size mismatch, first half: fs.get(gridfs_id) and cache_file.delete(), read
\* as deleting the blob. A blob that is not there makes fs.get raise NoFile;
\* a delete() that raises instead is update_raise at "classify".
size_mismatch_delete_blob(p, serial) ==
    /\ pc[p] = "classify"
    /\ Alone(p, serial)
    /\ LET l   == run[p].list
           gid == CachedRow(run[p].cached, Head(run[p].todo)).gridfs_id
       IN  IF gid \in fs
           THEN /\ fs' = fs \ {gid}
                /\ pc' = [pc EXCEPT ![p] = "del_row"]
                /\ UNCHANGED << run, hist >>
           ELSE /\ pc' = [pc EXCEPT ![p] = "failed"]
                /\ run' = [run EXCEPT ![p].cause = "nofile"]
                /\ hist' = [hist EXCEPT ![l] = Crashed(p)]
                /\ UNCHANGED fs
    /\ UNCHANGED << remote, messages, nextOid, aa_cache, mailing_lists, clock, remoteOps >>
    /\ UNCHANGED << imap, dl, call >>
    /\ UNCHANGED << now, mailing_list_names, pager >>

\* Size mismatch, second half: delete_one, msg_fetch.append, and on through
\* the loop to the next mismatch.
size_mismatch_delete_row(p, serial) ==
    /\ pc[p] = "del_row"
    /\ Alone(p, serial)
    /\ LET l == run[p].list
           i == Head(run[p].todo)
           c == ClassifyLocal(Tail(run[p].todo), run[p].cached, l, Append(run[p].msg_fetch, i))
       IN  /\ messages' = delete_one(messages, l, i)
           /\ run' = [run EXCEPT ![p].todo = c.todo, ![p].msg_fetch = c.msg_fetch]
           /\ pc' = [pc EXCEPT ![p] = ClassifyPc(c)]
    /\ UNCHANGED << remote, fs, nextOid, aa_cache, mailing_lists, hist, clock, remoteOps >>
    /\ UNCHANGED << imap, dl, call >>
    /\ UNCHANGED << now, mailing_list_names, pager >>

\* The archived-at index after message i with header value aa.
IndexWith(idx, aa, i) ==
    IF aa # "none" THEN Put(idx, parse_archive_url(ArchivedAt(aa))[2], i) ELSE idx

\* (mutant) the second loop leaves one message early.
NextFetchPc_early(p) == IF run[p].k >= Len(run[p].msg_fetch) - 1 THEN "index" ELSE "fetch"

\* Where the second loop goes after the k-th message is done.
NextFetchPc(p) == IF run[p].k = Len(run[p].msg_fetch) THEN "index" ELSE "fetch"

\* The keepalive test that ends an iteration of the second loop: a no-op is
\* due when more than the period has passed since last_keepalive.
\* (mutant) the no-op is never due.
keepalive_due_never(p) == FALSE

keepalive_due(p) == now - run[p].last_keepalive > KeepaliveSecs

\* last_keepalive and the connection after the test: imap.noop() and
\* last_keepalive = curr_keepalive when the no-op is due.
keepalive_time(p) == IF keepalive_due(p) THEN now ELSE run[p].last_keepalive
keepalive_noop(p) ==
    IF keepalive_due(p) THEN [imap[p] EXCEPT !.noops = @ + 1] ELSE imap[p]

\* One message of the second loop up to the test of the batch size: fs.put,
\* the in-memory index, the count, and the staged upsert.
fetch_one(p, serial) ==
    /\ pc[p] = "fetch"
    /\ Alone(p, serial)
    /\ LET l == run[p].list
           i == run[p].msg_fetch[run[p].k]
           c == remote[l][i]
           staged == Append(run[p].cache_replaces, StagedReplace(l, i, nextOid, c))
           h == mailing_lists[p][l]
       IN  /\ fs' = fs \cup {nextOid}
           /\ nextOid' = nextOid + 1
           /\ mailing_lists' = [mailing_lists EXCEPT ![p][l] =
                   [h EXCEPT !.archive_urls = IndexWith(h.archive_urls, c.aa, i),
                              !.num_messages = h.num_messages + 1]]
           /\ IF Len(staged) > FlushThreshold
              THEN /\ run' = [run EXCEPT ![p].cache_replaces = staged]
                   /\ pc' = [pc EXCEPT ![p] = "flush"]
                   /\ UNCHANGED imap
              ELSE /\ run' = [run EXCEPT ![p].cache_replaces = staged,
                                          ![p].last_keepalive = keepalive_time(p),
                                          ![p].new_msgs = Append(@, i),
                                          ![p].k = @ + 1]
                   /\ imap' = [imap EXCEPT ![p] = keepalive_noop(p)]
                   /\ pc' = [pc EXCEPT ![p] = NextFetchPc(p)]
    /\ UNCHANGED << remote, messages, aa_cache, hist, clock, remoteOps >>
    /\ UNCHANGED << dl, call >>
    /\ UNCHANGED << now, mailing_list_names, pager >>

\* The uids of the documents of a staged batch.
BatchIds(ops) == {ops[j].doc.imap_uid : j \in 1..Len(ops)}

\* The flush inside the loop: bulk_write of the staged batch, then the rest
\* of the iteration (new_msgs.append).
flush(p, serial) ==
    /\ pc[p] = "flush"
    /\ Alone(p, serial)
    /\ LET l == run[p].list
           w == bulk_write(messages, run[p].cache_replaces)
       IN  /\ messages' = w.rows
           /\ IF w.ok
              THEN /\ run' = [run EXCEPT ![p].cache_replaces = <<>>,
                                          ![p].flushed = @ \cup BatchIds(run[p].cache_replaces),
                                          ![p].last_keepalive = keepalive_time(p),
                                          ![p].new_msgs = Append(@, run[p].msg_fetch[run[p].k]),
                                          ![p].k = @ + 1]
                   /\ imap' = [imap EXCEPT ![p] = keepalive_noop(p)]
                   /\ pc' = [pc EXCEPT ![p] = NextFetchPc(p)]
                   /\ UNCHANGED hist
              ELSE /\ run' = [run EXCEPT ![p].cause = "bulk_write"]
                   /\ pc' = [pc EXCEPT ![p] = "failed"]
                   /\ hist' = [hist EXCEPT ![l] = Crashed(p)]
                   /\ UNCHANGED imap
    /\ UNCHANGED << remote, fs, nextOid, aa_cache, mailing_lists, clock, remoteOps >>
    /\ UNCHANGED << dl, call >>
    /\ UNCHANGED << now, mailing_list_names, pager >>

\* (mutant) the index document is not written after the loop.
persist_index_skipped(p, serial) ==
    /\ pc[p] = "index"
    /\ Alone(p, serial)
    /\ pc' = [pc EXCEPT ![p] = IF Len(run[p].cache_replaces) > 0 THEN "final" ELSE "close"]
    /\ UNCHANGED << remote, messages, fs, nextOid, aa_cache, mailing_lists, run, hist,
                    clock, remoteOps >>
    /\ UNCHANGED << imap, dl, call >>
    /\ UNCHANGED << now, mailing_list_names, pager >>

\* After the loop: aa_cache.replace_one(..., upsert=True) with the in-memory index.
persist_index(p, serial) ==
    /\ pc[p] = "index"
    /\ Alone(p, serial)
    /\ LET l == run[p].list
       IN  aa_cache' = [aa_cache EXCEPT ![l] =
               [exists |-> TRUE, archive_urls |-> mailing_lists[p][l].archive_urls]]
    /\ pc' = [pc EXCEPT ![p] = IF Len(run[p].cache_replaces) > 0 THEN "final" ELSE "close"]
    /\ UNCHANGED << remote, messages, fs, nextOid, mailing_lists, run, hist, clock, remoteOps >>
    /\ UNCHANGED << imap, dl, call >>
    /\ UNCHANGED << now, mailing_list_names, pager >>

\* `if len(cache_replaces) > 0: bulk_write(cache_replaces)`
final_flush(p, serial) ==
    /\ pc[p] = "final"
    /\ Alone(p, serial)
    /\ LET l == run[p].list
           w == bulk_write(messages, run[p].cache_replaces)
       IN  /\ messages' = w.rows
           /\ IF w.ok
              THEN /\ run' = [run EXCEPT ![p].flushed = @ \cup BatchIds(run[p].cache_replaces)]
                   /\ pc' = [pc EXCEPT ![p] = "close"]
                   /\ UNCHANGED hist
              ELSE /\ run' = [run EXCEPT ![p].cause = "bulk_write"]
                   /\ pc' = [pc EXCEPT ![p] = "failed"]
                   /\ hist' = [hist EXCEPT ![l] = Crashed(p)]
    /\ UNCHANGED << remote, fs, nextOid, aa_cache, mailing_lists, clock, remoteOps >>
    /\ UNCHANGED << imap, dl, call >>
    /\ UNCHANGED << now, mailing_list_names, pager >>

\* (mutant) update() returns without unselecting the folder.
update_return_keeps_selected(p, serial) ==
    /\ pc[p] = "close"
    /\ Alone(p, serial)
    /\ LET l == run[p].list
       IN  /\ mailing_lists' = [mailing_lists EXCEPT ![p][l].last_updated = clock]
           /\ hist' = [hist EXCEPT ![l] = [synced |-> TRUE, crash |-> NoCrash]]
    /\ pc' = [pc EXCEPT ![p] = "done"]
    /\ UNCHANGED << remote, messages, fs, nextOid, aa_cache, run, clock, remoteOps >>
    /\ UNCHANGED << imap, dl, call >>
    /\ UNCHANGED << now, mailing_list_names, pager >>

\* The end of update(): unselect the folder, log out, set _last_updated and
\* return new_msgs.
update_return(p, serial) ==
    /\ pc[p] = "close"
    /\ Alone(p, serial)
    /\ LET l == run[p].list
       IN  /\ mailing_lists' = [mailing_lists EXCEPT ![p][l].last_updated = clock]
           /\ hist' = [hist EXCEPT ![l] = [synced |-> TRUE, crash |-> NoCrash]]
    /\ pc' = [pc EXCEPT ![p] = "done"]
    /\ UNCHANGED << remote, messages, fs, nextOid, aa_cache, run, clock, remoteOps >>
    /\ imap' = [imap EXCEPT ![p] =
            IF @.shared THEN [@ EXCEPT !.state = "auth", !.folder = <<>>] ELSE NoConn]
    /\ UNCHANGED << dl, call >>
    /\ UNCHANGED << now, mailing_list_names, pager >>

\* The next remote or store operation of update() raises (or the process is
\* stopped there): the exception leaves update(); nothing catches it. The
\* cause is where the run stood: "fetch" is the fetch or the storing of a
\* message of msg_fetch, "flush" and "final" a bulk_write.
update_raise(p, serial) ==
    /\ pc[p] \in Active
    /\ Alone(p, serial)
    /\ run' = [run EXCEPT ![p].cause = pc[p]]
    /\ pc' = [pc EXCEPT ![p] = "failed"]
    /\ hist' = [hist EXCEPT ![run[p].list] = Crashed(p)]
    /\ UNCHANGED << remote, messages, fs, nextOid, aa_cache, mailing_lists, clock, remoteOps >>
    /\ UNCHANGED << imap, dl, call >>
    /\ UNCHANGED << now, mailing_list_names, pager >>

\* The caller goes on after update() returned or raised; the locals are gone.
Caller(p, serial) ==
    /\ pc[p] \in {"done", "failed"}
    /\ Alone(p, serial)
    /\ pc' = [pc EXCEPT ![p] = "idle"]
    /\ run' = [run EXCEPT ![p] = NoRun]
    /\ UNCHANGED << remote, messages, fs, nextOid, aa_cache, mailing_lists, hist, clock, remoteOps >>
    /\ imap' = [imap EXCEPT ![p] = NoConn]
    /\ UNCHANGED << dl, call >>
    /\ UNCHANGED << now, mailing_list_names, pager >>

\* Time passes while update() is at work: the operation it is about to finish
\* takes one more unit of the wall clock.
time_passes(p) ==
    /\ pc[p] \in Active
    /\ now < MaxTime
    /\ now' = now + 1
    /\ UNCHANGED << remote, messages, fs, nextOid, aa_cache, mailing_lists, pc,
                    run, hist, clock, remoteOps, imap, dl, call, mailing_list_names,
                    pager >>

\* -------------------------------------------------------------- lookups
\* A lookup returns a uid's message or raises.
Returned(i) == [ok |-> TRUE, uid |-> i, err |-> "none"]
Raised(e)   == [ok |-> FALSE, uid |-> 0, err |-> e]

\* MailingList.raw_message: the row's blob, parsed. Without a row the local
\* `message` is unbound at the return; without the blob fs.get raises.
raw_message(l, msg_id) ==
    LET hit == {r \in RowsOf(l) : r.imap_uid = msg_id}
    IN  IF hit = {} THEN Raised("UnboundLocalError")
        ELSE IF (CHOOSE r \in hit : TRUE).gridfs_id \notin fs THEN Raised("NoFile")
        ELSE Returned(msg_id)

\* MailingList._msg_metadata is annotated in the class body and assigned
\* nowhere: reading it raises AttributeError.
has_msg_metadata == FALSE

\* MailingList.message: MailingListMessage(self.raw_message(msg_id),
\* self._msg_metadata[msg_id]), the arguments evaluated left to right.
message(l, msg_id) ==
    LET raw == raw_message(l, msg_id)
    IN  IF ~raw.ok THEN raw
        ELSE IF ~has_msg_metadata THEN Raised("AttributeError")
        ELSE Returned(msg_id)

\* MailingList.message_from_archive_url of a handle h of list l.
ml_message_from_archive_url(h, l, archive_url) ==
    LET parsed == parse_archive_url(archive_url)
    IN  IF parsed[1] # l THEN Raised("AssertionError")
        ELSE IF ~HasKey(h.archive_urls, parsed[2]) THEN Raised("KeyError")
        ELSE message(l, Get(h.archive_urls, parsed[2]))

\* The result of MailArchive.message_from_archive_url in process p for a URL
\* that is not of the legacy form: the handle of the list the URL names is
\* the one p holds, or one constructed now.
message_from_archive_url(p, archive_url) ==
    IF Find(archive_url, CanonicalMark) >= 0
    THEN LET list_name == parse_archive_url(archive_url)[1]
         IN  IF list_name \notin Lists THEN Raised("KeyError")
             ELSE IF mailing_lists[p][list_name].exists
             THEN ml_message_from_archive_url(mailing_lists[p][list_name], list_name, archive_url)
             ELSE IF init_raises(list_name) THEN Raised("AttributeError")
             ELSE ml_message_from_archive_url(MailingList_init(list_name), list_name, archive_url)
    ELSE Raised("RuntimeError")

\* The URLs handed to the lookups: the permalinks of two hashes of list a and
\* of one of list b, a URL of the legacy archive and one of neither form.
LegacyUrl == Https \o <<":">> \o LegacyMark \o <<"a">>
OtherUrl  == Https \o <<":", "/", "/", "x">>
CanonicalUrls ==
    { Permalink(<<"a">>, <<"x">>), Permalink(<<"a">>, <<"y">>), Permalink(<<"b">>, <<"x">>) }
Urls == CanonicalUrls \cup {LegacyUrl, OtherUrl}

\* Where the requests of a legacy URL end: at a canonical URL (the server
\* redirects), or nowhere (<<>>: the request raises or the assertion on
\* response.url fails). A URL of another form is looked up as it is.
Redirects(archive_url) ==
    IF Find(archive_url, LegacyMark) >= 0 THEN CanonicalUrls \cup {<<>>} ELSE {archive_url}

\* What MailArchive.message_from_archive_url(archive_url) gives its caller
\* when the request of a legacy URL ends at target.
resolve_result(p, archive_url, target) ==
    IF target = <<>> THEN Raised("AssertionError") ELSE message_from_archive_url(p, target)

\* The call of MailArchive.message_from_archive_url as a step, the request of
\* a legacy URL ending at target: the only state it touches is through
\* self.mailing_list(list_name), which constructs the handle of the list the
\* URL names when the archive has none (and the constructor does not raise).
resolve_to(p, archive_url, target, serial) ==
    /\ pc[p] = "idle"
    /\ Alone(p, serial)
    /\ UNCHANGED << pc, run, clock, remoteOps, nextOid, hist, fs, messages, remote >>
    /\ target \in Redirects(archive_url)
    /\ LET list_name == parse_archive_url(target)[1]
       IN  IF /\ target # <<>>
              /\ Find(target, CanonicalMark) >= 0
              /\ list_name \in Lists
              /\ ~mailing_lists[p][list_name].exists
              /\ ~init_raises(list_name)
           THEN mailing_list(p, list_name, serial)
           ELSE UNCHANGED << mailing_lists, aa_cache, imap, dl, call, now,
                             mailing_list_names, pager >>

resolve(p, archive_url, serial) ==
    \E target \in Redirects(archive_url) : resolve_to(p, archive_url, target, serial)

\* The persisted index of a list is not there although the list has rows: a
\* cache written before aa_cache was kept, or whose aa_cache collection was
\* dropped (the case the else branch of MailingList.__init__ is for).
aa_cache_lost(l, serial) ==
    /\ Quiet
    /\ InBudget(serial)
    /\ aa_cache[l].exists
    /\ aa_cache' = [aa_cache EXCEPT ![l] = NoDoc]
    /\ remoteOps' = remoteOps + 1
    /\ UNCHANGED << remote, messages, fs, nextOid, mailing_lists, pc, run, hist, clock >>
    /\ UNCHANGED << imap, dl, call >>
    /\ UNCHANGED << now, mailing_list_names, pager >>

\* ------------------------------------------------- download_all_messages
\* The orders in which list_folders may name the lists.
Enumerations ==
    {s \in [1..Cardinality(Lists) -> Lists] : \A j, k \in DOMAIN s : s[j] = s[k] => j = k}

\* The list the loop of download_all_messages stands at.
CurrentList(p) == dl[p].ml_names[dl[p].index]

\* download_all_messages up to the loop: the names are read over a
\* connection of their own (mailing_list_names, logged out again), then the
\* connection that every update() is handed is made and logged in.
download_begin(p, serial) ==
    /\ dl[p].pc = "off"
    /\ pc[p] = "idle"
    /\ Alone(p, serial)
    /\ InBudget(serial)
    /\ \E names \in Enumerations :
           dl' = [dl EXCEPT ![p] = [pc |-> "loop", ml_names |-> names, index |-> 1,
                                    updated |-> <<>>]]
    /\ imap' = [imap EXCEPT ![p] = [state |-> "auth", folder |-> <<>>, shared |-> TRUE, noops |-> 0]]
    /\ UNCHANGED << remote, messages, fs, nextOid, aa_cache, mailing_lists, pc, run, hist,
                    clock, remoteOps, call >>
    /\ UNCHANGED << now, mailing_list_names, pager >>

\* Listing the folders or logging in raises: nothing was synchronised.
download_connect_fail(p, serial) ==
    /\ dl[p].pc = "off"
    /\ pc[p] = "idle"
    /\ Alone(p, serial)
    /\ InBudget(serial)
    /\ dl' = [dl EXCEPT ![p] = [NoDownload EXCEPT !.pc = "raised"]]
    /\ UNCHANGED << remote, messages, fs, nextOid, aa_cache, mailing_lists, pc, run, hist,
                    clock, remoteOps, imap, call >>
    /\ UNCHANGED << now, mailing_list_names, pager >>

\* `ml = self.mailing_list(ml_name)` for a list the archive has no handle of.
download_mailing_list(p, serial) ==
    /\ dl[p].pc = "loop"
    /\ mailing_list(p, CurrentList(p), serial)

\* `ml.update(reuse_imap=imap)` starts: the folder is selected on the shared
\* connection.
download_update_begin(p, serial) ==
    /\ dl[p].pc = "loop"
    /\ update_begin(p, CurrentList(p), serial)

\* ... or select_folder raises.
download_update_connect_fail(p, serial) ==
    /\ dl[p].pc = "loop"
    /\ update_connect_fail(p, CurrentList(p), serial)

\* update() returned: the loop goes to the next name, or ends and logs out.
download_next(p, serial) ==
    /\ dl[p].pc = "loop"
    /\ pc[p] = "done"
    /\ Alone(p, serial)
    /\ pc' = [pc EXCEPT ![p] = "idle"]
    /\ run' = [run EXCEPT ![p] = NoRun]
    /\ LET last == dl[p].index = Len(dl[p].ml_names)
       IN  /\ dl' = [dl EXCEPT ![p].updated = Append(@, CurrentList(p)),
                               ![p].index = @ + 1,
                               ![p].pc = IF last THEN "returned" ELSE "loop"]
           /\ imap' = IF last THEN [imap EXCEPT ![p].state = "out"] ELSE imap
    /\ UNCHANGED << remote, messages, fs, nextOid, aa_cache, mailing_lists, hist, clock,
                    remoteOps, call >>
    /\ UNCHANGED << now, mailing_list_names, pager >>

\* update() raised: nothing catches the exception, download_all_messages ends
\* with it; the remaining lists are not visited and the connection is left
\* as it is.
download_raise(p, serial) ==
    /\ dl[p].pc = "loop"
    /\ pc[p] = "failed"
    /\ Alone(p, serial)
    /\ pc' = [pc EXCEPT ![p] = "idle"]
    /\ run' = [run EXCEPT ![p] = NoRun]
    /\ dl' = [dl EXCEPT ![p].pc = "raised"]
    /\ UNCHANGED << remote, messages, fs, nextOid, aa_cache, mailing_lists, hist, clock,
                    remoteOps, imap, call >>
    /\ UNCHANGED << now, mailing_list_names, pager >>

\* The caller of download_all_messages goes on; its locals are gone.
download_end(p, serial) ==
    /\ dl[p].pc \in {"returned", "raised"}
    /\ Alone(p, serial)
    /\ dl' = [dl EXCEPT ![p] = NoDownload]
    /\ imap' = [imap EXCEPT ![p] = NoConn]
    /\ UNCHANGED << remote, messages, fs, nextOid, aa_cache, mailing_lists, pc, run, hist,
                    clock, remoteOps, call >>
    /\ UNCHANGED << now, mailing_list_names, pager >>

\* ------------------------------------------------- mailing_list_names
\* The first next() of the generator: the connection is made and logged in,
\* the folders are listed, and the first name is yielded; with no folder the
\* loop is over at once, the connection is logged out and the generator ends.
names_begin(p) ==
    /\ mailing_list_names[p].pc = "none"
    /\ Quiet /\ dl[p].pc = "off"
    /\ \E folders \in Enumerations \cup {<<>>} :
           mailing_list_names' = [mailing_list_names EXCEPT ![p] =
               IF folders = <<>>
               THEN [pc |-> "exhausted", state |-> "out", folders |-> folders, index |-> 0]
               ELSE [pc |-> "yielded", state |-> "auth", folders |-> folders, index |-> 1]]
    /\ UNCHANGED << remote, messages, fs, nextOid, aa_cache, mailing_lists, pc, run, hist,
                    clock, remoteOps, imap, dl, call, now, pager >>

\* A later next(): the loop goes on to the next name, or ends, and then
\* imap.logout() runs and the generator is exhausted.
names_next(p) ==
    /\ mailing_list_names[p].pc = "yielded"
    /\ Quiet /\ dl[p].pc = "off"
    /\ mailing_list_names' = [mailing_list_names EXCEPT ![p] =
           IF mailing_list_names[p].index = Len(mailing_list_names[p].folders)
           THEN [@ EXCEPT !.pc = "exhausted", !.state = "out"]
           ELSE [@ EXCEPT !.index = @ + 1]]
    /\ UNCHANGED << remote, messages, fs, nextOid, aa_cache, mailing_lists, pc, run, hist,
                    clock, remoteOps, imap, dl, call, now, pager >>

\* The caller stops iterating (a break, an exception in the loop body) and
\* lets go of the generator: it is closed at its yield, the statement after
\* the loop never runs.
names_drop(p) ==
    /\ mailing_list_names[p].pc = "yielded"
    /\ Quiet /\ dl[p].pc = "off"
    /\ mailing_list_names' = [mailing_list_names EXCEPT ![p].pc = "dropped"]
    /\ UNCHANGED << remote, messages, fs, nextOid, aa_cache, mailing_lists, pc, run, hist,
                    clock, remoteOps, imap, dl, call, now, pager >>

\* ---------------------------------------------------- calls of the helpers
\* The sequences over S of at most n elements.
SeqsUpTo(S, n) == UNION {[1..k -> S] : k \in 0..n}

\* The strings handed to _parse_archive_url: nothing, a canonical prefix
\* with and without the "/" after the marker, a legacy prefix and a prefix
\* of another host, each followed by a few more characters.
UrlPrefixes == { <<>>, <<"h", "t", "t", "p">>, Https }
UrlHeads ==
    { <<>>, Https \o Marker, Https \o <<":">> \o LegacyMark,
      Https \o <<":", "/", "/", "x", "/">> }
        \cup {pre \o Marker \o <<"/">> : pre \in UrlPrefixes}
UrlInputs == {h \o t : h \in UrlHeads, t \in SeqsUpTo({"a", "/", " "}, MaxTail)}

\* A fetched RFC822 payload, as far as update() looks at it: the header lines
\* other than Date (name and value, in order), what the Date header holds
\* ("absent": no Date header; "valid"; "unparsable": parsedate gives None;
\* "out_of_range": a date time.mktime cannot convert), and what the body is
\* ("text": decodes; "empty": nothing; "non_utf8": bytes that do not decode;
\* "no_text_part": get_body() finds no part). The zero-byte payload has no
\* header line, no Date and an empty body.
HeaderNames  == {"Subject", "subject", "X"}
HeaderValues == {"v1", "v2"}
DateKinds    == {"absent", "valid", "unparsable", "out_of_range"}
BodyKinds    == {"text", "empty", "non_utf8", "no_text_part"}
RawMessages ==
    [ hdrs : SeqsUpTo(HeaderNames \X HeaderValues, MaxHeaders), date : DateKinds,
      body : BodyKinds ]
ZeroBytes == [hdrs |-> <<>>, date |-> "absent", body |-> "empty"]

\* str.lower of a header name.
Lower(name) ==
    CASE name = "Subject" -> "subject"
      [] name = "Date"    -> "date"
      [] name = "X"       -> "x"
      [] OTHER            -> name

\* email.message_from_bytes(...).items(): the header lines, in order, names
\* as written. The parser raises for no input.
items(rfc822) ==
    (IF rfc822.date = "absent" THEN <<>> ELSE << <<"Date", rfc822.date>> >>) \o rfc822.hdrs

\* e[name]: the value of the first header of that name, compared without
\* regard to case, or None ("absent").
header(rfc822, name) ==
    LET e   == items(rfc822)
        hit == {j \in 1..Len(e) : Lower(e[j][1]) = Lower(name)}
    IN  IF hit = {} THEN "absent" ELSE e[CHOOSE j \in hit : \A k \in hit : j <= k][2]

\* email.utils.parsedate: a time tuple, or None for a missing or unparsable
\* Date (a tuple is written as the kind of the Date it came from).
parsedate(date) == IF date \in {"valid", "out_of_range"} THEN date ELSE "None"
\* datetime.fromtimestamp(time.mktime(msg_date)): the instant (2 for every
\* valid Date), or OverflowError / ValueError for a date out of range.
fromtimestamp(msg_date) ==
    IF msg_date = "valid" THEN [ok |-> TRUE, val |-> 2] ELSE [ok |-> FALSE, val |-> 0]

\* (mutant) the conversion of the date is outside the try.
timestamp_unguarded(rfc822) ==
    LET msg_date == parsedate(header(rfc822, "Date"))
    IN  IF msg_date = "None" THEN [ok |-> TRUE, val |-> 0] ELSE fromtimestamp(msg_date)

\* The timestamp update() stores (0 is None): None when parsedate gives
\* None, and None again when the conversion raises (the bare except).
timestamp(rfc822) ==
    LET msg_date == parsedate(header(rfc822, "Date"))
        conv     == fromtimestamp(msg_date)
    IN  IF msg_date = "None" THEN [ok |-> TRUE, val |-> 0]
        ELSE IF conv.ok THEN conv
        ELSE [ok |-> TRUE, val |-> 0]

\* {name : value for name, value in e.items()}: a dict keyed by the names as
\* written; a later line replaces the value of an equal name.
headers(rfc822) ==
    LET e == items(rfc822)
    IN  [ name \in {e[j][1] : j \in 1..Len(e)} |->
              LET hit == {j \in 1..Len(e) : e[j][1] = name}
              IN  e[CHOOSE j \in hit : \A k \in hit : k <= j][2] ]

\* email.get_body(): the part that holds the text, or None.
get_body(rfc822) == IF rfc822.body = "no_text_part" THEN "None" ELSE rfc822.body
\* get_payload(decode=True).decode(charset) and the two cleaning passes: the
\* cleaned text, or an exception for bytes that do not decode.
decode(raw_body) ==
    CASE raw_body = "text"  -> [ok |-> TRUE, val |-> "text"]
      [] raw_body = "empty" -> [ok |-> TRUE, val |-> ""]
      [] OTHER              -> [ok |-> FALSE, val |-> ""]

\* _clean_email_text: the cleaned text of the body; the bare except turns
\* every failure (None has no get_payload, bytes that do not decode) into "".
clean_email_text(rfc822) ==
    LET raw_body == get_body(rfc822)
        text     == decode(raw_body)
    IN  IF raw_body = "None" THEN ""
        ELSE IF text.ok THEN text.val
        ELSE ""

\* What lines 206-230 make of a fetched payload: the fields of the staged
\* document that come from the payload, or the exception that leaves update().
normalize(rfc822) ==
    LET ts == timestamp(rfc822)
    IN  IF ~ts.ok THEN [ok |-> FALSE, doc |-> <<>>]
        ELSE [ ok |-> TRUE,
               doc |-> [ timestamp |-> ts.val, headers |-> headers(rfc822),
                         body |-> clean_email_text(rfc822) ] ]

\* A URL with both marks: a permalink of list a whose hash part holds the
\* legacy path.
BothUrl == Permalink(<<"a">>, <<"x">>) \o <<"?">> \o LegacyMark
\* The URLs MailArchive.message_from_archive_url is called with, and the
\* URLs a request may end at (response.url is the server's choice).
ResolveUrls  == Urls \cup {BothUrl}
ResponseUrls == Urls \cup {BothUrl}

\* A caller invokes one of the helpers with an input.
Invoke(fn, archive_url, rfc822) ==
    /\ call.fn = "none"
    /\ Quiet
    /\ call' = [NoCall EXCEPT !.fn = fn, !.archive_url = archive_url, !.rfc822 = rfc822]
    /\ UNCHANGED << remote, messages, fs, nextOid, aa_cache, mailing_lists, pc, run, hist,
                    clock, remoteOps, imap, dl >>
    /\ UNCHANGED << now, mailing_list_names, pager >>

\* _parse_archive_url(archive_url) returns.
call_parse_archive_url ==
    /\ call.fn = "_parse_archive_url" /\ call.pc = "ready"
    /\ call' = [call EXCEPT !.pc = "returned",
                            !.ret = [ok |-> TRUE, val |-> parse_archive_url(call.archive_url)]]
    /\ UNCHANGED << remote, messages, fs, nextOid, aa_cache, mailing_lists, pc, run, hist,
                    clock, remoteOps, imap, dl >>
    /\ UNCHANGED << now, mailing_list_names, pager >>

\* The payload goes through lines 206-230.
call_normalize ==
    /\ call.fn = "normalize" /\ call.pc = "ready"
    /\ call' = [call EXCEPT !.pc = "returned", !.ret = normalize(call.rfc822)]
    /\ UNCHANGED << remote, messages, fs, nextOid, aa_cache, mailing_lists, pc, run, hist,
                    clock, remoteOps, imap, dl >>
    /\ UNCHANGED << now, mailing_list_names, pager >>

\* MailArchive.message_from_archive_url, legacy branch: requests.get, the
\* assertion on response.url, and the call of itself with response.url. The
\* request may raise instead. (The model follows at most MaxTrips requests.)
http_get(p) ==
    /\ call.fn = "message_from_archive_url" /\ call.pc = "ready"
    /\ Find(call.archive_url, LegacyMark) >= 0
    /\ call.trips < MaxTrips
    /\ \/ call' = [call EXCEPT !.pc = "returned", !.trips = @ + 1,
                               !.ret = Raised("RequestException")]
       \/ \E url \in ResponseUrls :
              call' = IF Find(url, CanonicalMark) >= 0
                      THEN [call EXCEPT !.trips = @ + 1, !.archive_url = url]
                      ELSE [call EXCEPT !.pc = "returned", !.trips = @ + 1,
                                        !.ret = Raised("AssertionError")]
    /\ UNCHANGED << remote, messages, fs, nextOid, aa_cache, mailing_lists, pc, run, hist,
                    clock, remoteOps, imap, dl >>
    /\ UNCHANGED << now, mailing_list_names, pager >>

\* MailArchive.message_from_archive_url for a URL without the legacy mark:
\* the canonical branch (through self.mailing_list, which constructs and
\* keeps the handle of the list when the archive has none) or RuntimeError.
resolve_end(p) ==
    /\ call.fn = "message_from_archive_url" /\ call.pc = "ready"
    /\ Find(call.archive_url, LegacyMark) < 0
    /\ pc[p] = "idle"
    /\ call' = [call EXCEPT !.pc = "returned",
                            !.ret = message_from_archive_url(p, call.archive_url)]
    /\ LET list_name == parse_archive_url(call.archive_url)[1]
       IN  IF /\ Find(call.archive_url, CanonicalMark) >= 0
              /\ list_name \in Lists
              /\ ~mailing_lists[p][list_name].exists
              /\ ~init_raises(list_name)
           THEN /\ mailing_lists' = [mailing_lists EXCEPT ![p][list_name] =
                                         MailingList_init(list_name)]
                /\ aa_cache' = IF aa_cache[list_name].exists THEN aa_cache
                               ELSE [aa_cache EXCEPT ![list_name] =
                                         [exists |-> TRUE, archive_urls |-> {}]]
           ELSE UNCHANGED << mailing_lists, aa_cache >>
    /\ UNCHANGED << remote, messages, fs, nextOid, pc, run, hist, clock, remoteOps, imap, dl >>
    /\ UNCHANGED << now, mailing_list_names, pager >>

\* The caller has the result; the next call can be made.
call_return ==
    /\ call.pc = "returned"
    /\ call' = NoCall
    /\ UNCHANGED << remote, messages, fs, nextOid, aa_cache, mailing_lists, pc, run, hist,
                    clock, remoteOps, imap, dl >>
    /\ UNCHANGED << now, mailing_list_names, pager >>

\* ------------------------------------------- DataTracker: paginated generators
Generators == {"people", "documents", "groups"}

\* What the server holds for a query: the number of objects of each of its
\* pages (an empty result is one page without objects).
PageLists == {<<0>>} \cup (SeqsUpTo(1..MaxPageLen, MaxPages) \ {<<>>})

\* r.json()['objects'] of page k, and all objects of the query in page order.
Objects(pages, k) == [j \in 1..pages[k] |-> <<k, j>>]
RECURSIVE ObjectsFrom(_, _)
ObjectsFrom(pages, k) ==
    IF k > Len(pages) THEN <<>> ELSE Objects(pages, k) \o ObjectsFrom(pages, k + 1)
AllObjects(pages) == ObjectsFrom(pages, 1)

\* r.json()['meta']['next'] of page k: the path of the next page, or None (0).
meta_next(pages, k) == IF k = Len(pages) THEN 0 ELSE k + 1

\* The URL before the loop: people and documents start from base_url + path,
\* groups from the path alone.
first_url(fn) == [base |-> fn # "groups", path |-> 1]

\* The URL session.get is called with: groups prefixes base_url, people and
\* documents pass their variable as it is.
request_url(fn, url) == IF fn = "groups" THEN [url EXCEPT !.base = TRUE] ELSE url

\* A generator is called and iterated: the URL of the first page is built.
pager_begin(fn) ==
    /\ pager.fn = "none"
    /\ \E pages \in PageLists :
           pager' = [NoPager EXCEPT !.fn = fn, !.pc = "request", !.pages = pages,
                                    !.url = first_url(fn)]
    /\ UNCHANGED << remote, messages, fs, nextOid, aa_cache, mailing_lists, pc, run, hist,
                    clock, remoteOps, imap, dl, call, now, mailing_list_names >>

\* Where the generator stands after the for loop has taken an object or
\* found none left: inside the for loop, at the next request, or at its end.
pager_pc(objs, url) ==
    IF objs # <<>> THEN "yield" ELSE IF url.path = 0 THEN "exhausted" ELSE "request"

\* One turn of the while loop up to the for loop: session.get (a URL without
\* scheme and host raises MissingSchema), meta and objects of the page, and
\* the next URL: people and groups keep meta['next'] as it is, documents adds
\* it to base_url, which raises TypeError when it is None.
pager_request ==
    /\ pager.pc = "request"
    /\ LET fn   == pager.fn
           url  == request_url(fn, pager.url)
           next == meta_next(pager.pages, url.path)
           objs == Objects(pager.pages, url.path)
           asked == [pager EXCEPT !.requested = Append(@, url)]
       IN  pager' =
               IF ~url.base
               THEN [asked EXCEPT !.pc = "raised", !.err = "MissingSchema"]
               ELSE IF fn = "documents" /\ next = 0
               THEN [asked EXCEPT !.pc = "raised", !.err = "TypeError"]
               ELSE [asked EXCEPT !.url = [base |-> fn = "documents", path |-> next],
                                  !.objs = objs,
                                  !.pc = pager_pc(objs, [base |-> FALSE, path |-> next])]
    /\ UNCHANGED << remote, messages, fs, nextOid, aa_cache, mailing_lists, pc, run, hist,
                    clock, remoteOps, imap, dl, call, now, mailing_list_names >>

\* The for loop yields the next object of the page.
pager_yield ==
    /\ pager.pc = "yield"
    /\ pager' = [pager EXCEPT !.yielded = Append(@, Head(pager.objs)),
                              !.objs = Tail(@),
                              !.pc = pager_pc(Tail(pager.objs), pager.url)]
    /\ UNCHANGED << remote, messages, fs, nextOid, aa_cache, mailing_lists, pc, run, hist,
                    clock, remoteOps, imap, dl, call, now, mailing_list_names >>

\* The caller goes on after the generator ended or raised.
pager_end ==
    /\ pager.pc \in {"exhausted", "raised"}
    /\ pager' = NoPager
    /\ UNCHANGED << remote, messages, fs, nextOid, aa_cache, mailing_lists, pc, run, hist,
                    clock, remoteOps, imap, dl, call, now, mailing_list_names >>

\* ------------------------------------------------------- specifications
\* The steps of process p over the lists LS.
Step(p, LS, serial) ==
    \/ \E l \in LS : mailing_list(p, l, serial)
    \/ MailArchive_init(p, serial)
    \/ \E l \in LS : update_connect_fail(p, l, serial)
    \/ \E l \in LS : update_begin(p, l, serial)
    \/ size_mismatch_delete_blob(p, serial)
    \/ size_mismatch_delete_row(p, serial)
    \/ fetch_one(p, serial)
    \/ flush(p, serial)
    \/ persist_index(p, serial)
    \/ final_flush(p, serial)
    \/ update_return(p, serial)
    \/ update_raise(p, serial)
    \/ Caller(p, serial)

\* The changes of the mailboxes of the lists LS, with messages from CS.
Remote(LS, CS, serial) ==
    \/ \E l \in LS : Deliver(l, CS, serial)
    \/ \E l \in LS : Rewrite(l, CS, serial)
    \/ \E l \in LS : Expunge(l, serial)

SyncLists == {<<"a">>}

\* One process synchronising one list, one update() at a time (the use the
\* design assumes); the process may end and a new one take over.
Next == Remote(SyncLists, SyncContents, TRUE) \/ Step("p1", SyncLists, TRUE)
Spec == Init /\ [][Next]_vars

\* Two processes run update() on the same list concurrently (messages without
\* a permalink).
RaceContents == [size : Sizes, aa : {"none"}, ts : {TRUE}]
NextRace == Remote(SyncLists, RaceContents, FALSE) \/ \E p \in Procs : Step(p, SyncLists, FALSE)
SpecRace == Init /\ [][NextRace]_vars

\* One process that, besides synchronising list a, asks for the handles of
\* both lists and resolves URLs; messages may lack a parsable Date, and the
\* persisted index may be lost.
LookupContents ==
    { [size |-> 1, aa |-> "ax", ts |-> TRUE], [size |-> 1, aa |-> "ax", ts |-> FALSE],
      [size |-> 2, aa |-> "none", ts |-> TRUE] }
NextLookup ==
    \/ Remote(SyncLists, LookupContents, FALSE)
    \/ Step("p1", SyncLists, FALSE)
    \/ mailing_list("p1", <<"b">>, FALSE)
    \/ \E u \in Urls : resolve("p1", u, FALSE)
    \/ \E l \in SyncLists : aa_cache_lost(l, FALSE)
SpecLookup == Init /\ [][NextLookup]_vars

\* A caller of the helpers and of the URL lookup, on an archive that holds
\* nothing yet: every input of the bounded sets is tried.
NextCalls ==
    \/ \E u \in UrlInputs : Invoke("_parse_archive_url", u, ZeroBytes)
    \/ \E m \in RawMessages : Invoke("normalize", <<>>, m)
    \/ \E u \in ResolveUrls : Invoke("message_from_archive_url", u, ZeroBytes)
    \/ call_parse_archive_url
    \/ call_normalize
    \/ http_get("p1")
    \/ resolve_end("p1")
    \/ call_return
SpecCalls == Init /\ [][NextCalls]_vars

\* One process that synchronises both lists with download_all_messages,
\* again and again, while the mailboxes change between the runs of update().
NextAll ==
    \/ Remote(Lists, RaceContents, TRUE)
    \/ download_begin("p1", TRUE)
    \/ download_connect_fail("p1", TRUE)
    \/ download_mailing_list("p1", TRUE)
    \/ download_update_begin("p1", TRUE)
    \/ download_update_connect_fail("p1", TRUE)
    \/ size_mismatch_delete_blob("p1", TRUE)
    \/ size_mismatch_delete_row("p1", TRUE)
    \/ fetch_one("p1", TRUE)
    \/ flush("p1", TRUE)
    \/ persist_index("p1", TRUE)
    \/ final_flush("p1", TRUE)
    \/ update_return("p1", TRUE)
    \/ update_raise("p1", TRUE)
    \/ download_next("p1", TRUE)
    \/ download_raise("p1", TRUE)
    \/ download_end("p1", TRUE)
SpecAll == Init /\ [][NextAll]_vars

\* One process synchronising one list while the wall clock runs.
NextKeepalive ==
    \/ Remote(SyncLists, RaceContents, TRUE)
    \/ Step("p1", SyncLists, TRUE)
    \/ time_passes("p1")
SpecKeepalive == Init /\ [][NextKeepalive]_vars

\* Two processes, each with its own handle of the list, run update() strictly
\* one after the other (messages with either of two permalinks).
HandleContents == [size : Sizes, aa : {"ax", "ay"}, ts : {TRUE}]
NextHandles ==
    \/ Remote(SyncLists, HandleContents, TRUE)
    \/ \E p \in Procs : Step(p, SyncLists, TRUE)
SpecHandles == Init /\ [][NextHandles]_vars

\* One process that synchronises list by list with update(), all lists with
\* download_all_messages(), and reads the list names from the generator
\* (messages of one kind arrive; none is changed or removed).
SessionContents == [size : {1}, aa : {"none"}, ts : {TRUE}]
NextSessions ==
    \/ \E l \in Lists : Deliver(l, SessionContents, TRUE)
    \/ dl["p1"].pc = "off" /\ \E l \in SyncLists : mailing_list("p1", l, TRUE)
    \/ dl["p1"].pc = "off" /\ \E l \in SyncLists : update_connect_fail("p1", l, TRUE)
    \/ dl["p1"].pc = "off" /\ \E l \in SyncLists : update_begin("p1", l, TRUE)
    \/ dl["p1"].pc = "off" /\ Caller("p1", TRUE)
    \/ download_begin("p1", TRUE)
    \/ download_connect_fail("p1", TRUE)
    \/ download_mailing_list("p1", TRUE)
    \/ download_update_begin("p1", TRUE)
    \/ download_update_connect_fail("p1", TRUE)
    \/ fetch_one("p1", TRUE)
    \/ flush("p1", TRUE)
    \/ persist_index("p1", TRUE)
    \/ final_flush("p1", TRUE)
    \/ update_return("p1", TRUE)
    \/ update_raise("p1", TRUE)
    \/ download_next("p1", TRUE)
    \/ download_raise("p1", TRUE)
    \/ download_end("p1", TRUE)
    \/ names_begin("p1")
    \/ names_next("p1")
    \/ names_drop("p1")
SpecSessions == Init /\ [][NextSessions]_vars

\* A caller iterates the paginated generators of DataTracker, one at a time.
NextPager ==
    \/ \E fn \in Generators : pager_begin(fn)
    \/ pager_request
    \/ pager_yield
    \/ pager_end
SpecPager == Init /\ [][NextPager]_vars

\* ----------------------------------------------------------- properties
\* The list a run of p works on, and the ids stored for a list.
ListOf(p)    == run[p].list
StoredIds(l) == {r.imap_uid : r \in RowsOf(l)}
RowsFor(l, i) == {r \in RowsOf(l) : r.imap_uid = i}

\* C1: a run that starts right after a successful run of the same list, with
\* no remote change in between, returns no new ids and leaves the handle's
\* count and the stored rows as they were.
C1_Idempotent ==
    \A p \in Procs :
        (pc[p] = "done" /\ run[p].fresh) =>
            /\ run[p].new_msgs = <<>>
            /\ mailing_lists[p][ListOf(p)].num_messages = run[p].pre.handle.num_messages
            /\ messages = run[p].pre.messages

C1_Witness ==
    \E p \in Procs : pc[p] = "done" /\ run[p].fresh /\ Cardinality(messages) >= 2

\* C2: db.messages never holds two rows with the same (list, imap_uid).
C2_NoDuplication ==
    \A r1, r2 \in messages :
        (r1.list = r2.list /\ r1.imap_uid = r2.imap_uid) => r1 = r2

\* A second upsert of an id that has a row was attempted (and refused).
C2_Witness ==
    \E p \in Procs : pc[p] = "failed" /\ run[p].cause = "bulk_write"

\* C3: a run that starts right after a run that failed after flushing, with no
\* remote change in between, fetches exactly the ids of the failed run's
\* to-fetch set that it had not flushed, and then every id of that set has
\* exactly one row.
C3_BatchCrashRecovery ==
    \A p \in Procs :
        (pc[p] = "done" /\ run[p].recov.valid) =>
            /\ SeqSet(run[p].new_msgs) = run[p].recov.unflushed
            /\ \A i \in run[p].recov.flushed \cup run[p].recov.unflushed :
                   Cardinality(RowsFor(ListOf(p), i)) = 1

C3_Witness ==
    \E p \in Procs :
        /\ pc[p] = "done" /\ run[p].recov.valid
        /\ run[p].recov.flushed # {} /\ run[p].recov.unflushed # {}
        /\ SeqSet(run[p].new_msgs) # RemoteIds(ListOf(p))

\* The ids a run found cached with a size other than the remote one.
Mismatched(p) ==
    {i \in RemoteIds(ListOf(p)) :
        InCache(run[p].cached, i) /\ CachedRow(run[p].cached, i).size # remote[ListOf(p)][i].size}

\* C4: after a run that found id i cached with a size other than the remote
\* one, i has exactly one row, its size is the remote size, and the blob of
\* the old row is gone from GridFS and referenced by no row.
C4_SizeMismatchRepair ==
    \A p \in Procs :
        pc[p] = "done" =>
            \A i \in Mismatched(p) :
                LET old == CachedRow(run[p].cached, i).gridfs_id
                IN  /\ Cardinality(RowsFor(ListOf(p), i)) = 1
                    /\ \A r \in RowsFor(ListOf(p), i) : r.size = remote[ListOf(p)][i].size
                    /\ old \notin fs
                    /\ \A r \in messages : r.gridfs_id # old

C4_Witness ==
    \E p \in Procs : pc[p] = "done" /\ Mismatched(p) # {}

\* Every entry of an index names a uid that has a row in the list.
IndexNamesRows(idx, l) == \A e \in idx : RowsFor(l, e[2]) # {}

\* C5: every entry of the persisted index of a list, and of the in-memory
\* index of every handle of the list, names a uid that has a row in the list.
C5_IndexNamesStoredRows ==
    \A l \in Lists :
        /\ IndexNamesRows(aa_cache[l].archive_urls, l)
        /\ \A p \in Procs : IndexNamesRows(mailing_lists[p][l].archive_urls, l)

\* C6: right after a run, for every message it stored that carries a
\* permalink, message_from_archive_url of the permalink returns what
\* message(uid) returns, and both succeed.
C6_ArchiveUrlRoundTrip ==
    \A p \in Procs :
        pc[p] = "done" =>
            \A i \in SeqSet(run[p].new_msgs) :
                LET aa == remote[ListOf(p)][i].aa
                    by_url == message_from_archive_url(p, ArchivedAt(aa))
                    by_uid == message(ListOf(p), i)
                IN  aa # "none" => (by_url.ok /\ by_uid.ok /\ by_url.uid = by_uid.uid)

\* C7: a run that fails to connect, log in or select leaves the rows, the
\* blobs, the persisted index and the handle (count, last-updated) as they were.
C7_ConnectFailureChangesNothing ==
    \A p \in Procs :
        (pc[p] = "failed" /\ run[p].cause = "connection") =>
            /\ messages = run[p].pre.messages
            /\ fs = run[p].pre.fs
            /\ aa_cache[ListOf(p)] = run[p].pre.aa_cache
            /\ mailing_lists[p][ListOf(p)] = run[p].pre.handle

C7_Witness ==
    \E p \in Procs :
        /\ pc[p] = "failed" /\ run[p].cause = "connection"
        /\ messages # {} /\ mailing_lists[p][ListOf(p)].last_updated # 0

\* C8: an error while fetching or storing a message of the to-fetch set does
\* not end the run.
C8_MessageFailureDoesNotAbort ==
    \A p \in Procs : run[p].cause = "fetch" => pc[p] # "failed"

\* C9 as claimed: after a successful run the stored ids are the remote ids,
\* and every row has the remote size.
C9_CacheEqualsRemote ==
    \A p \in Procs :
        pc[p] = "done" =>
            /\ StoredIds(ListOf(p)) = RemoteIds(ListOf(p))
            /\ \A r \in RowsOf(ListOf(p)) : r.size = remote[ListOf(p)][r.imap_uid].size

\* C9, amended: after a successful run every remote id has a row, with the
\* remote size; the rows of ids the mailbox no longer holds are the rows
\* that were there before the run.
C9_CacheCoversRemote ==
    \A p \in Procs :
        pc[p] = "done" =>
            /\ RemoteIds(ListOf(p)) \subseteq StoredIds(ListOf(p))
            /\ \A r \in RowsOf(ListOf(p)) :
                   IF r.imap_uid \in RemoteIds(ListOf(p))
                   THEN r.size = remote[ListOf(p)][r.imap_uid].size
                   ELSE r \in run[p].pre.messages

C9_Witness ==
    \E p \in Procs :
        /\ pc[p] = "done" /\ run[p].new_msgs # <<>>
        /\ StoredIds(ListOf(p)) # RemoteIds(ListOf(p))

\* C10 as claimed: after a failed run every (list, id) that had a row before
\* the run has one, every flushed id has one, and the unflushed ids have none.
C10_FailureLosesOnlyUnflushed ==
    \A p \in Procs :
        pc[p] = "failed" =>
            /\ \A r \in run[p].pre.messages : RowsFor(r.list, r.imap_uid) # {}
            /\ \A i \in run[p].flushed : RowsFor(ListOf(p), i) # {}
            /\ \A i \in SeqSet(run[p].msg_fetch) \ run[p].flushed : RowsFor(ListOf(p), i) = {}

\* C10, amended: after a failed run every row of before the run is still
\* there, except the rows the run deleted as size-mismatched (their ids are
\* in the to-fetch set); every flushed id has a row and the unflushed ids of
\* the to-fetch set have none.
C10_FailureKeepsUntouchedAndFlushed ==
    \A p \in Procs :
        pc[p] = "failed" =>
            /\ \A r \in run[p].pre.messages :
                   \/ r \in messages
                   \/ r.list = ListOf(p) /\ r.imap_uid \in SeqSet(run[p].msg_fetch)
                                          /\ r.imap_uid \in Mismatched(p)
            /\ \A i \in run[p].flushed : Cardinality(RowsFor(ListOf(p), i)) = 1
            /\ \A i \in SeqSet(run[p].msg_fetch) \ run[p].flushed : RowsFor(ListOf(p), i) = {}

C10_Witness ==
    \E p \in Procs :
        /\ pc[p] = "failed"
        /\ run[p].cache_replaces # <<>>
        /\ \E r \in run[p].pre.messages : r \notin messages
        /\ \E r \in run[p].pre.messages : r \in messages

\* C11: a staged batch is an upsert keyed by (list, uid): written a second
\* time, on rows that already hold its ids, it is applied without error and
\* leaves the rows as they were after the first time, one row per id.
C11_FlushIsIdempotentUpsert ==
    \A p \in Procs :
        pc[p] \in {"flush", "final"} =>
            LET ops   == run[p].cache_replaces
                once  == bulk_write(messages, ops)
                twice == bulk_write(once.rows, ops)
            IN  /\ once.ok
                /\ twice.ok
                /\ twice.rows = once.rows
                /\ \A i \in BatchIds(ops) :
                       Cardinality({r \in twice.rows : r.list = ListOf(p) /\ r.imap_uid = i}) = 1

\* C12: after a successful run the handle's num_messages is the number of
\* rows stored for the list.
C12_CountEqualsRows ==
    \A p \in Procs :
        pc[p] = "done" =>
            mailing_lists[p][ListOf(p)].num_messages = Cardinality(RowsOf(ListOf(p)))

\* C13: a run that failed leaves num_messages and last_updated of the handle
\* as they were before it, and a run that succeeded has set last_updated to
\* the time of the run.
C13_HandleUpdatedOnlyOnSuccess ==
    \A p \in Procs :
        /\ pc[p] = "failed" =>
               /\ mailing_lists[p][ListOf(p)].num_messages = run[p].pre.handle.num_messages
               /\ mailing_lists[p][ListOf(p)].last_updated = run[p].pre.handle.last_updated
        /\ pc[p] = "done" => mailing_lists[p][ListOf(p)].last_updated = clock

\* C14: message(uid) returns the message of the row of uid when the list has
\* one, and raises when it has none.
C14_MessageLookup ==
    \A l \in Lists, i \in Ids :
        IF RowsFor(l, i) # {}
        THEN message(l, i) = Returned(i)
        ELSE ~message(l, i).ok

\* The content hashes the lookups are asked for.
Hashes == {<<"x">>, <<"y">>}
\* The rows of list l whose message carries the permalink of (l, h).
Carriers(l, h) == {r \in RowsOf(l) : r.aa # "none" /\ ArchivedAt(r.aa) = Permalink(l, h)}

C16_LazyRebuild ==
    \A l \in Lists :
        (~aa_cache[l].exists /\ RowsOf(l) # {}) =>
            /\ ~init_raises(l)
            /\ \A hash \in Hashes :
                   Carriers(l, hash) # {} =>
                       \E e \in MailingList_init(l).archive_urls :
                           e[1] = hash /\ \E r \in Carriers(l, hash) : r.imap_uid = e[2]

\* C17: a lookup by archive URL, made between update() runs, answers by the
\* rows: for a hash no row of the list carries it raises KeyError, whatever
\* the index says, and for a hash some row carries it gives what
\* message(uid) of such a row gives.
C17_RowsWinOverIndex ==
    \A p \in Procs, l \in Lists, hash \in Hashes :
        LET by_url == message_from_archive_url(p, Permalink(l, hash))
        IN  pc[p] = "idle" =>
                IF Carriers(l, hash) = {}
                THEN by_url = Raised("KeyError")
                ELSE \E r \in Carriers(l, hash) : by_url = message(l, r.imap_uid)

\* C18: messages(since, until) yields the uids of the rows of the list whose
\* timestamp lies in the range, and does not raise.
C18_MessagesInRange ==
    \A l \in Lists, since \in Times, until \in Times :
        LET m == ml_messages(l, since, until)
        IN  /\ m.ok
            /\ m.uids = {r.imap_uid : r \in {x \in RowsOf(l) :
                             since < Timestamp(x) /\ Timestamp(x) < until}}

\* C19: as long as the MailArchive lives, a name bound to a handle stays
\* bound, and no call made between update() runs (mailing_list,
\* message_from_archive_url) replaces or changes the handle it is bound to.
C19_MappingGrowsMonotonically ==
    [][\A p \in Procs :
          ~MailArchive_init(p, FALSE) =>
              \A l \in Lists :
                  mailing_lists[p][l].exists =>
                      /\ mailing_lists'[p][l].exists
                      /\ (pc[p] = "idle" /\ pc'[p] = "idle") =>
                             mailing_lists'[p][l] = mailing_lists[p][l]]_vars

C19_Witness ==
    \E p \in Procs :
        /\ \A l \in Lists : mailing_lists[p][l].exists
        /\ \E l \in Lists : mailing_lists[p][l].last_updated # 0
        /\ pc[p] = "idle"

\* The message_from_archive_url calls: a URL and where its request ends.
ResolveCalls == UNION {{<<u, t>> : t \in Redirects(u)} : u \in Urls}

\* C20 as claimed: a message_from_archive_url call that raises leaves the
\* rows, the blobs and the persisted index documents of every list as they
\* were: no step that changes one of them is such a call.
C20_FailedResolveChangesNothing ==
    [][(messages' # messages \/ fs' # fs \/ aa_cache' # aa_cache) =>
           \A p \in Procs, c \in ResolveCalls :
               ~(resolve_to(p, c[1], c[2], FALSE) /\ ~resolve_result(p, c[1], c[2]).ok)]_vars

\* C20, amended: a message_from_archive_url call that raises leaves the rows,
\* the blobs and the entries of every persisted index as they were; the one
\* write it can make is the empty index document of the list its URL names,
\* when that list had none.
C20_FailedResolveKeepsRowsAndEntries ==
    [][(messages' # messages \/ fs' # fs \/ aa_cache' # aa_cache) =>
           \A p \in Procs, c \in ResolveCalls :
               (resolve_to(p, c[1], c[2], FALSE) /\ ~resolve_result(p, c[1], c[2]).ok) =>
                   /\ messages' = messages
                   /\ fs' = fs
                   /\ \A l \in Lists :
                          /\ aa_cache'[l].archive_urls = aa_cache[l].archive_urls
                          /\ aa_cache'[l] # aa_cache[l] =>
                                 (~aa_cache[l].exists /\ \E h \in Hashes : c[2] = Permalink(l, h))]_vars

C20_Witness ==
    /\ mailing_lists["p1"][<<"b">>].exists
    /\ aa_cache[<<"b">>] = [exists |-> TRUE, archive_urls |-> {}]
    /\ aa_cache[<<"a">>].archive_urls # {}
    /\ ~resolve_result("p1", Permalink(<<"b">>, <<"x">>), Permalink(<<"b">>, <<"x">>)).ok

\* The remote ids a run found cached with the size the server reports.
Matching(p) ==
    {i \in RemoteIds(ListOf(p)) : InCache(run[p].cached, i)} \ Mismatched(p)

\* C26: a run that returns, returns exactly the remote ids that had no row or
\* a row of another size when it started; and from its start to its end, the
\* row of every id whose cached size matched is the row it read, and the blob
\* of that row stays in GridFS if it was there.
C26_ReturnsAbsentAndMismatched ==
    \A p \in Procs :
        /\ pc[p] = "done" =>
               /\ SeqSet(run[p].new_msgs) =
                      {i \in RemoteIds(ListOf(p)) : ~InCache(run[p].cached, i)}
                          \cup Mismatched(p)
               /\ Len(run[p].new_msgs) = Cardinality(SeqSet(run[p].new_msgs))
        /\ pc[p] \in Active \cup {"done", "failed"} =>
               \A i \in Matching(p) :
                   LET r == CachedRow(run[p].cached, i)
                   IN  /\ RowsFor(ListOf(p), i) = {r}
                       /\ r \in run[p].pre.messages
                       /\ r.gridfs_id \in run[p].pre.fs => r.gridfs_id \in fs

C26_Witness ==
    \E p \in Procs :
        /\ pc[p] = "done"
        /\ Matching(p) # {}
        /\ Mismatched(p) # {}
        /\ SeqSet(run[p].new_msgs) = Mismatched(p)

\* The uids of the upserts a run has staged and not yet written.
Unflushed(p) == BatchIds(run[p].cache_replaces) \ run[p].flushed

\* C27: at every point of a run at most FlushThreshold upserts are staged and
\* not yet flushed (the flush happens when the FlushThreshold-th upsert is
\* staged), and when a run returns none is left staged.
C27_StagedAtMostThreshold ==
    \A p \in Procs :
        /\ pc[p] \in Active => Cardinality(Unflushed(p)) <= FlushThreshold
        /\ pc[p] = "done" => Unflushed(p) = {}

\* C28: once a run has persisted the index, every message it fetched has its
\* row: the index is persisted only after every staged upsert, the final
\* remainder included, is flushed.
C28_IndexPersistedAfterRows ==
    \A p \in Procs :
        pc[p] \in {"final", "close", "done"} =>
            \A i \in SeqSet(run[p].msg_fetch) : i \in run[p].flushed

\* C29: a run writes the persisted index if and only if it has messages to
\* fetch: after a run with messages to fetch that returned, the persisted
\* index is the in-memory index of the handle; a run without messages to fetch
\* leaves the index document as it was.
C29_IndexWrittenIffFetched ==
    \A p \in Procs :
        LET l == ListOf(p)
        IN  /\ (pc[p] = "done" /\ run[p].msg_fetch # <<>>) =>
                   /\ aa_cache[l].exists
                   /\ aa_cache[l].archive_urls = mailing_lists[p][l].archive_urls
            /\ (pc[p] \in Active \cup {"done", "failed"} /\ run[p].msg_fetch = <<>>) =>
                   aa_cache[l] = run[p].pre.aa_cache

\* A run that fetched a message with a permalink and returned: the index
\* document changed.
C29_Witness ==
    \E p \in Procs :
        /\ pc[p] = "done"
        /\ run[p].msg_fetch # <<>>
        /\ aa_cache[ListOf(p)].archive_urls # run[p].pre.aa_cache.archive_urls

\* The failure of update() that only another run on the same list can cause:
\* the unique index refused a staged row (msg_fetch holds only uids that had
\* no row, or whose row this run deleted).
Refused(p) == pc[p] = "failed" /\ run[p].cause = "bulk_write"

C21_ParseFailsWithoutMarker ==
    (/\ call.fn = "_parse_archive_url"
     /\ call.pc = "returned"
     /\ Find(call.archive_url, Marker) < 0) => ~call.ret.ok

\* C22: a lookup of a legacy URL makes one request and then handles the URL
\* the request ended at as a canonical one: whatever that URL is, no second
\* request is made.
C22_OneRoundTrip ==
    call.fn = "message_from_archive_url" => call.trips <= 1

\* C24: lines 206-230 fail for no payload: a well-formed message, one with an
\* unparsable or unconvertible Date, the zero-byte payload and a body that
\* does not decode all give a document; a Date that is not valid gives no
\* timestamp, a body whose extraction fails gives the empty body.
C24_TotalNormalization ==
    (call.fn = "normalize" /\ call.pc = "returned") =>
        /\ call.ret.ok
        /\ call.ret.doc.timestamp = (IF call.rfc822.date = "valid" THEN 2 ELSE 0)
        /\ call.ret.doc.body = (IF call.rfc822.body = "text" THEN "text" ELSE "")
        /\ call.rfc822 = ZeroBytes =>
               call.ret.doc = [timestamp |-> 0, headers |-> << >>, body |-> ""]

\* A message whose Date cannot be converted and whose body does not decode
\* went through.
C24_Witness ==
    /\ call.fn = "normalize" /\ call.pc = "returned"
    /\ call.rfc822.date = "out_of_range"
    /\ call.rfc822.body = "non_utf8"
    /\ call.rfc822.hdrs # <<>>

\* The names of the header lines of a payload, and the last value of a name
\* compared without regard to case.
LineNames(rfc822) == {items(rfc822)[j][1] : j \in 1..Len(items(rfc822))}
LastValue(rfc822, name) ==
    LET e   == items(rfc822)
        hit == {j \in 1..Len(e) : Lower(e[j][1]) = Lower(name)}
    IN  e[CHOOSE j \in hit : \A k \in hit : k <= j][2]

\* C25: the stored header table has, for every header name of the message
\* compared without regard to case, one entry, and it holds the value of the
\* last line of that name.
C25_HeadersCaseInsensitiveLastWins ==
    (call.fn = "normalize" /\ call.pc = "returned" /\ call.ret.ok) =>
        \A name \in LineNames(call.rfc822) :
            LET table == call.ret.doc.headers
                keys  == {k \in DOMAIN table : Lower(k) = Lower(name)}
            IN  /\ Cardinality(keys) = 1
                /\ \A k \in keys : table[k] = LastValue(call.rfc822, name)

\* What holds of a download_all_messages call of p at every moment: the
\* lists synchronised so far are the first names of the enumeration, in its
\* order; a running update() works on the name the loop stands at, on the
\* shared connection with that folder selected; the connection is logged out,
\* and the call has returned, only with every name synchronised.
DownloadInOrder(p) ==
    LET d == dl[p]
    IN  d.pc \in {"loop", "returned"} =>
            /\ imap[p].shared
            /\ d.updated = SubSeq(d.ml_names, 1, Len(d.updated))
            /\ d.pc = "loop" => /\ Len(d.updated) = d.index - 1
                                /\ imap[p].state # "out"
            /\ pc[p] \in Active \cup {"done"} => run[p].list = d.ml_names[d.index]
            /\ pc[p] \in Active => /\ imap[p].state = "selected"
                                   /\ imap[p].folder = run[p].list
            /\ d.pc = "returned" => /\ d.updated = d.ml_names
                                    /\ imap[p].state = "out"

\* C23: download_all_messages synchronises the enumerated lists one after
\* the other in the order of the enumeration, each once, over the one shared
\* connection: a folder is selected only while no folder is selected, and the
\* connection is logged out only after the last list.
C23_SequentialOverSharedConnection ==
    [][ \A p \in Procs :
            /\ DownloadInOrder(p)'
            /\ (/\ imap'[p].shared
                /\ imap'[p].state = "selected"
                /\ imap'[p] # imap[p]) => imap[p].state = "auth"
      ]_vars

\* A call that returned after it synchronised both lists, and stored
\* messages of both.
C23_Witness ==
    \E p \in Procs :
        /\ dl[p].pc = "returned"
        /\ Len(dl[p].updated) = Cardinality(Lists)
        /\ \A l \in Lists : RowsOf(l) # {}

\* The list names and hashes of the URLs of C31: letters only.
NameParts == SeqsUpTo({"a"}, MaxTail - 2) \ {<<>>}

\* C31: for a URL made of any text, the marker, "/", a list name, "/" and a
\* hash, _parse_archive_url returns the list name and the hash, whatever the
\* text before the marker is.
C31_ParseIgnoresPrefix ==
    (call.fn = "_parse_archive_url" /\ call.pc = "returned") =>
        \A pre \in UrlPrefixes, l \in NameParts, h \in NameParts :
            call.archive_url = pre \o Marker \o <<"/">> \o l \o <<"/">> \o h =>
                call.ret.ok /\ call.ret.val = <<l, h>>

\* A URL with a four-character scheme was parsed.
C31_Witness ==
    /\ call.fn = "_parse_archive_url" /\ call.pc = "returned"
    /\ call.archive_url = <<"h", "t", "t", "p">> \o Marker \o <<"/", "a", "/", "a">>

\* Claim C32: keepalive during fetching. Every step that ends the processing
\* of a message of the to-fetch set sends one no-op on the connection and
\* restarts the period when more than the keepalive period has passed since
\* the last keepalive (or since the run started), and sends none otherwise;
\* so the next message is never begun with more than the period on the clock.
C32_KeepaliveAfterEachMessage ==
    [][\A p \in Procs :
          (pc[p] \in {"fetch", "flush"} /\ run'[p].k = run[p].k + 1) =>
              /\ imap'[p].noops = imap[p].noops +
                     (IF now - run[p].last_keepalive > KeepaliveSecs THEN 1 ELSE 0)
              /\ now' - run'[p].last_keepalive <= KeepaliveSecs]_vars
C32_Witness ==
    /\ pc["p1"] = "fetch"
    /\ run["p1"].k = 3
    /\ imap["p1"].noops = 1
    /\ run["p1"].last_keepalive = now
    /\ now = MaxTime

\* The entries of an index are exact: each names a uid whose stored row
\* carries a permalink of list l with the entry's hash.
IndexExact(idx, l) ==
    \A e \in idx :
        \E r \in RowsFor(l, e[2]) :
            r.aa # "none" /\ parse_archive_url(ArchivedAt(r.aa)) = <<l, e[1]>>

\* Claim C33: archive index exactness. After every run that returned, each
\* entry h -> i of the index of the list (of the handle, and persisted) is
\* such that the message stored under uid i carries a permalink that names
\* the list and has hash h; no entry outlives a message that a re-fetch
\* replaced by one with another or no permalink.
C33_IndexExactAfterRun ==
    \A p \in Procs :
        pc[p] = "done" =>
            /\ IndexExact(mailing_lists[p][ListOf(p)].archive_urls, ListOf(p))
            /\ IndexExact(aa_cache[ListOf(p)].archive_urls, ListOf(p))

\* The hashes an index has an entry for.
IndexKeys(idx) == {e[1] : e \in idx}

\* Claim C34: stale-handle safety of the persisted index. When the handles of
\* two processes for the same list run update() strictly one after the other,
\* no step of a run removes from the persisted index a hash that was in it
\* (so an entry that the earlier run of the other handle added stays), and the
\* index persisted by a run that returned has an entry for every stored
\* message of the list that carries a permalink.
C34_RunKeepsPersistedEntries ==
    [][\A p \in Procs :
          pc[p] = "index" =>
              LET l == ListOf(p)
              IN  /\ IndexKeys(aa_cache[l].archive_urls) \subseteq IndexKeys(aa_cache'[l].archive_urls)
                  /\ \A r \in RowsOf(l) :
                         (r.aa # "none" /\ pc'[p] = "final") =>
                             parse_archive_url(ArchivedAt(r.aa))[2] \in IndexKeys(aa_cache'[l].archive_urls)]_vars

\* Claim C35: no dangling blob reference. In every reachable state, the
\* states between two store operations of a run and after a run that was
\* interrupted there included, the gridfs_id of every stored row is the id of
\* a blob that GridFS holds.
C35_NoDanglingBlobReference ==
    \A r \in messages : r.gridfs_id \in fs

\* The rows whose gridfs_id is the blob gid.
RowsOfBlob(gid) == {r \in messages : r.gridfs_id = gid}

\* Claim C36: no orphaned blob. After any run of update(), returned or
\* failed at any step, every blob GridFS holds is referenced by exactly one
\* stored row (so failed runs leave no unreferenced blobs behind to pile up).
C36_NoOrphanedBlob ==
    \A p \in Procs :
        pc[p] \in {"done", "failed"} =>
            \A gid \in fs : Cardinality(RowsOfBlob(gid)) = 1

\* A connection that is logged out, or was never made.
Released(state) == state \in {"none", "out"}

\* Claim C37: remote session release. Once update(), download_all_messages()
\* or a mailing_list_names() sequence has ended, by returning, by raising
\* mid-way, or by being let go before its end, the connection it opened is
\* logged out, and no folder is left selected on a connection that update()
\* was handed.
C37_SessionsReleased ==
    \A p \in Procs :
        /\ (pc[p] \in {"done", "failed"} /\ ~imap[p].shared) => Released(imap[p].state)
        /\ (pc[p] \in {"done", "failed"} /\ imap[p].shared) => imap[p].state # "selected"
        /\ dl[p].pc \in {"returned", "raised"} => Released(imap[p].state)
        /\ mailing_list_names[p].pc \in {"exhausted", "dropped"} => Released(mailing_list_names[p].state)

\* s is an initial part of t.
IsPrefix(s, t) == Len(s) <= Len(t) /\ \A j \in 1..Len(s) : s[j] = t[j]

\* Claim C38: the paginated generators people, documents and groups request
\* every page at the base URL followed by the path the server gave, yield the
\* objects of all pages once each in page order, and end, without raising,
\* when a page reports no next page.
C38_PagesInOrderToTheEnd ==
    pager.fn \in Generators =>
        /\ \A j \in 1..Len(pager.requested) :
               pager.requested[j] = [base |-> TRUE, path |-> j]
        /\ IsPrefix(pager.yielded, AllObjects(pager.pages))
        /\ pager.pc # "raised"
        /\ pager.pc = "exhausted" => pager.yielded = AllObjects(pager.pages)

TypeOK ==
    /\ \A l \in Lists, i \in Ids : remote[l][i] \in Contents \cup {Absent}
    /\ \A p \in Procs : pc[p] \in Active \cup {"idle", "done", "failed"}
    /\ \A r \in messages : r.list \in Lists /\ r.imap_uid \in Ids /\ r.size \in Sizes
    /\ \A p \in Procs : /\ imap[p].state \in {"none", "auth", "selected", "out"}
                       /\ dl[p].pc \in {"off", "loop", "returned", "raised"}
    /\ call.fn \in {"none", "_parse_archive_url", "normalize", "message_from_archive_url"}
    /\ call.pc \in {"ready", "returned"}
    /\ call.trips \in 0..MaxTrips
    /\ now \in 0..MaxTime
    /\ pager.fn \in Generators \cup {"none"}
    /\ pager.pc \in {"ready", "request", "yield", "exhausted", "raised"}
    /\ pager.url.path \in 0..MaxPages
    /\ Len(pager.yielded) <= MaxPages * MaxPageLen
    /\ \A p \in Procs : /\ mailing_list_names[p].pc \in {"none", "yielded", "exhausted", "dropped"}
                       /\ mailing_list_names[p].state \in {"none", "auth", "out"}
                       /\ imap[p].noops \in 0..MaxId

====
